---- MODULE Spec2Model ----
(***************************************************************************)
(* A model of the c3d-rs reader (src/src/lib.rs): the file adapter         *)
(* (C3dAdapter::new / construct / reader), the header and parameter        *)
(* decoders (HeaderBlock / ParameterBlock::from_reader), the parameter     *)
(* query (ParameterBlock::get) and the frame iterator (C3dReader::next).   *)
(*                                                                         *)
(* Numbers.  Bytes are 0..255.  f32 values are modelled exactly as an      *)
(* integer count of hundredths (1.25 is 125, the sentinel -0.01 is -1);    *)
(* the inputs are restricted to values that are multiples of 1/4 of small  *)
(* magnitude, for which f32 arithmetic is exact.  Fixed width integer      *)
(* arithmetic of the program is modelled with its width; the two build     *)
(* profiles of rustc (overflow checks on: panic, off: wrap) are the        *)
(* variable overflow_checks, chosen in the initial state.                  *)
(***************************************************************************)
EXTENDS Integers, Sequences, FiniteSets, TLC

VARIABLES
    file,             \* the byte source T: [len, nz] (bytes not in nz are 0)
    overflow_checks,  \* build profile: TRUE = arithmetic overflow panics
    pos,              \* the byte source's cursor (Seek position)
    stage,            \* "new" | "constructed" | "failed" (adapter lifecycle)
    header,           \* C3dAdapter.header   (NoHeader until constructed)
    parameter,        \* C3dAdapter.parameter (NoParameter until constructed)
    borrowed,         \* RefCell<T> borrow flag: a RefMut is alive
    readers,          \* live C3dReader values, by reader id
    outcome,          \* the last call: [op, by, res, item, key, param]
    emitted           \* per live reader id: the frame indices next() returned

vars == <<file, overflow_checks, pos, stage, header, parameter, borrowed,
          readers, outcome, emitted>>

----------------------------------------------------------------------------
(* Bounds of the model. *)

\* reader ids available to reader()
MaxReaders == 2
\* frames one iterator is followed for
MaxFrames == 4

----------------------------------------------------------------------------
(* Program constants. *)

BlockSize == 512
HeaderMagic == 80
ParameterMagic == 84
DotChar == 46
ColonChar == 58

----------------------------------------------------------------------------
(* Fixed width integers. *)

RECURSIVE Pow2(_)
Pow2(n) == IF n = 0 THEN 1 ELSE 2 * Pow2(n - 1)

ToI8(b) == IF b >= 128 THEN b - 256 ELSE b
ToI16(w) == IF w >= 32768 THEN w - 65536 ELSE w
ToU16(i) == i % 65536
AbsInt(i) == IF i < 0 THEN -i ELSE i

\* bitwise and of two 16 bit patterns 0..65535
RECURSIVE BitAnd(_, _)
BitAnd(a, b) ==
    IF a = 0 \/ b = 0 THEN 0
    ELSE (a % 2) * (b % 2) + 2 * BitAnd(a \div 2, b \div 2)

----------------------------------------------------------------------------
(* The byte source. *)

ByteAt(f, i) == IF i \in DOMAIN f.nz THEN f.nz[i] ELSE 0
U16At(f, i) == ByteAt(f, i) + 256 * ByteAt(f, i + 1)
I16At(f, i) == ToI16(U16At(f, i))
BytesAt(f, i, n) == [k \in 1..n |-> ByteAt(f, i + k - 1)]

\* Read::read_exact of n bytes at cursor p: whether it succeeds
CanRead(f, p, n) == p + n <= f.len

\* f32::from_le_bytes, in hundredths; exact for the values the model reads
F32At(f, i) ==
    LET b2 == ByteAt(f, i + 2)
        b3 == ByteAt(f, i + 3)
        sign == b3 \div 128
        expo == (b3 % 128) * 2 + b2 \div 128
        mant == (b2 % 128) * 65536 + ByteAt(f, i + 1) * 256 + ByteAt(f, i)
        sig == 8388608 + mant
        mag == IF expo = 0 THEN 0
               ELSE IF expo >= 150 THEN (sig * 100) * Pow2(expo - 150)
               ELSE IF expo < 120 THEN 0
               ELSE (sig * 100) \div Pow2(150 - expo)
    IN  IF sign = 1 THEN -mag ELSE mag

----------------------------------------------------------------------------
(* HeaderBlock: the packed 512 byte struct read over raw memory. *)

NoHeader == [parameter_start |-> 0, magic_word |-> 0, point_counts |-> 0,
             analog_counts |-> 0, frame_first |-> 0, frame_last |-> 0,
             scale |-> 0, data_start |-> 0]

HeaderBlock(f, p) ==
    [parameter_start |-> ByteAt(f, p),
     magic_word      |-> ByteAt(f, p + 1),
     point_counts    |-> U16At(f, p + 2),
     analog_counts   |-> U16At(f, p + 4),
     frame_first     |-> U16At(f, p + 6),
     frame_last      |-> U16At(f, p + 8),
     scale           |-> F32At(f, p + 12),
     data_start      |-> U16At(f, p + 16)]

\* HeaderBlock::from_reader: read_exact(512 bytes).unwrap()
HeaderFromReader(f, p) ==
    IF CanRead(f, p, BlockSize)
    THEN [panic |-> FALSE, pos |-> p + BlockSize, hdr |-> HeaderBlock(f, p)]
    ELSE [panic |-> TRUE, pos |-> p, hdr |-> NoHeader]

----------------------------------------------------------------------------
(* Strings: a String is its UTF-8 bytes. *)

IsCont(b) == b >= 128 /\ b <= 191

\* number of bytes of the UTF-8 sequence starting at s[i], 0 when ill-formed
Utf8Step(s, i) ==
    LET n == Len(s)
        b == s[i]
        c1 == IF i + 1 <= n THEN s[i + 1] ELSE 0
        c2 == IF i + 2 <= n THEN s[i + 2] ELSE 0
        c3 == IF i + 3 <= n THEN s[i + 3] ELSE 0
    IN  IF b < 128 THEN 1
        ELSE IF b >= 194 /\ b <= 223 THEN (IF IsCont(c1) THEN 2 ELSE 0)
        ELSE IF b = 224 THEN (IF c1 >= 160 /\ c1 <= 191 /\ IsCont(c2) THEN 3 ELSE 0)
        ELSE IF b = 237 THEN (IF c1 >= 128 /\ c1 <= 159 /\ IsCont(c2) THEN 3 ELSE 0)
        ELSE IF b >= 225 /\ b <= 239 THEN (IF IsCont(c1) /\ IsCont(c2) THEN 3 ELSE 0)
        ELSE IF b = 240 THEN
            (IF c1 >= 144 /\ c1 <= 191 /\ IsCont(c2) /\ IsCont(c3) THEN 4 ELSE 0)
        ELSE IF b >= 241 /\ b <= 243 THEN
            (IF IsCont(c1) /\ IsCont(c2) /\ IsCont(c3) THEN 4 ELSE 0)
        ELSE IF b = 244 THEN
            (IF c1 >= 128 /\ c1 <= 143 /\ IsCont(c2) /\ IsCont(c3) THEN 4 ELSE 0)
        ELSE 0

RECURSIVE Utf8From(_, _)
Utf8From(s, i) ==
    IF i > Len(s) THEN TRUE
    ELSE LET k == Utf8Step(s, i)
         IN  k > 0 /\ Utf8From(s, i + k)

\* String::from_utf8(bytes).is_ok()
ValidUtf8(s) == Utf8From(s, 1)

\* Vec::resize(n, 0) of the string buffer: truncate, or pad with zero bytes
Resize(s, n) == [k \in 1..n |-> IF k <= Len(s) THEN s[k] ELSE 0]

----------------------------------------------------------------------------
(* ParameterBlock::from_reader: the parameter section decoder. *)

NoParams == [x \in {} |-> 0]
NoGroups == [x \in {} |-> 0]

\* GroupFormat::default()
\* (entry_at and desc_at are not fields of the struct: they record the file
\* offsets of the group's entry and of the byte after its desc_len, -1 while
\* no group entry was decoded)
DefaultGroup == [name |-> <<>>, description |-> <<>>, locked |-> FALSE,
                 params |-> NoParams, entry_at |-> -1, desc_at |-> -1]

\* num_elements: the i32 product of the dimension bytes; exact while it fits
\* an i32 (ovf: it did not), and its low 16 bits, which `as i16` keeps
RECURSIVE DimProduct(_, _, _)
DimProduct(dims, i, acc) ==
    IF i > Len(dims) THEN acc
    ELSE LET b == dims[i]
             o == acc.ovf \/ (b > 0 /\ acc.exact > 2147483647 \div b)
         IN  DimProduct(dims, i + 1,
                        [exact |-> IF o THEN 0 ELSE acc.exact * b,
                         ovf   |-> o,
                         lo16  |-> (acc.lo16 * b) % 65536])

\* one element of the payload, by data_length
ParamValueAt(f, at, dl) ==
    IF dl = 1 THEN [kind |-> "u8", v |-> ByteAt(f, at)]
    ELSE IF dl = 2 THEN [kind |-> "i16", v |-> I16At(f, at)]
    ELSE IF dl = 4 THEN [kind |-> "f32", v |-> F32At(f, at)]
    ELSE [kind |-> "char", v |-> ByteAt(f, at)]

\* the filter_map over chunks_exact(|data_length|): only 1, 2, 4 and -1 give values
ParamValues(f, at, dl, total) ==
    IF dl \in {1, 2, 4, -1}
    THEN [k \in 1..(total \div AbsInt(dl)) |->
             ParamValueAt(f, at + (k - 1) * AbsInt(dl), dl)]
    ELSE <<>>

\* the parameter trailer at file offset t, with rem bytes left in the buffer
\* (payload_read, entry_at and desc_at are not fields of ParameterFormat: they
\* record the number of payload bytes read and the file offsets of the entry
\* and of the byte after its desc_len)
ParamTrailer(f, base, t, rem, oc, id, locked, name, offset) ==
    LET dl    == ToI8(ByteAt(f, t))
        nd    == ByteAt(f, t + 1)
        dims  == BytesAt(f, t + 2, nd)
        prod  == DimProduct(dims, 1, [exact |-> 1, ovf |-> FALSE, lo16 |-> 1])
        ne16  == ToI16(prod.lo16)
        adl16 == IF dl = -128 THEN -128 ELSE AbsInt(dl)
        raw   == ne16 * adl16
        total == ToI16(raw % 65536)
        dat   == t + 2 + nd
        dlen  == ByteAt(f, dat + total)
        desc  == Resize(name, dlen)
        bad   == [panic |-> TRUE, param |-> <<>>]
    IN  IF rem < 2 + nd THEN bad
        ELSE IF oc /\ (prod.ovf \/ dl = -128 \/ raw < -32768 \/ raw > 32767) THEN bad
        ELSE IF total < 0 THEN bad
        ELSE IF rem < 2 + nd + total THEN bad
        ELSE IF dl = 0 THEN bad
        ELSE IF rem < 2 + nd + total + 1 THEN bad
        ELSE IF ~ValidUtf8(desc) THEN bad
        ELSE [panic |-> FALSE,
              param |-> [id |-> id,
                         name_chars_size |-> Len(name),
                         name |-> name,
                         offset |-> offset,
                         data_length |-> dl,
                         num_dimensions |-> nd,
                         dimensions |-> dims,
                         values |-> ParamValues(f, dat, dl, total),
                         locked |-> locked,
                         desc_chars_size |-> dlen,
                         description |-> desc,
                         payload_read |-> total,
                         entry_at |-> base,
                         desc_at |-> dat + total + 1]]

\* the group trailer at file offset t
GroupTrailer(f, t, rem, name) ==
    LET dlen == ByteAt(f, t)
        desc == Resize(name, dlen)
    IN  IF rem < 1 \/ ~ValidUtf8(desc)
        THEN [panic |-> TRUE, desc |-> <<>>, desc_at |-> 0]
        ELSE [panic |-> FALSE, desc |-> desc, desc_at |-> t + 1]

\* groups.get_mut(&group_id) / insert, for a parameter entry
InsertParam(groups, gid, param) ==
    LET g == IF gid \in DOMAIN groups THEN groups[gid] ELSE DefaultGroup
    IN  (gid :> [g EXCEPT !.params = (param.name :> param) @@ g.params]) @@ groups

\* groups.get_mut(&group_id) / insert, for a group entry
InsertGroup(groups, gid, name, desc, locked, entry_at, desc_at) ==
    IF gid \in DOMAIN groups
    THEN (gid :> [groups[gid] EXCEPT !.name = name, !.description = desc,
                                     !.entry_at = entry_at,
                                     !.desc_at = desc_at]) @@ groups
    ELSE (gid :> [DefaultGroup EXCEPT !.name = name, !.description = desc,
                                      !.locked = locked,
                                      !.entry_at = entry_at,
                                      !.desc_at = desc_at]) @@ groups

\* the loop over the entries of parameter_buf, which is the len bytes of the
\* file from offset base; status "hang": the loop never ends
RECURSIVE Walk(_, _, _, _, _)
Walk(f, base, len, groups, oc) ==
    LET nl     == ToI8(ByteAt(f, base))
        locked == nl < 0
        n      == AbsInt(nl)
        id     == ToI8(ByteAt(f, base + 1))
        name   == BytesAt(f, base + 2, n)
        offset == I16At(f, base + 2 + n)
        t      == base + 2 + n + 2
        rem    == len - (2 + n + 2)
        at     == 2 + n + offset
        bad    == [status |-> "panic", groups |-> groups]
        pt     == ParamTrailer(f, base, t, rem, oc, id, locked, name, offset)
        gt     == GroupTrailer(f, t, rem, name)
        next   == IF id > 0
                  THEN InsertParam(groups, id, pt.param)
                  ELSE InsertGroup(groups, AbsInt(id), name, gt.desc, locked, base,
                                   gt.desc_at)
    IN  IF len < 1 THEN bad
        ELSE IF nl = -128 /\ oc THEN bad
        ELSE IF len < 2 THEN bad
        ELSE IF id = 0 \/ n = 0 THEN [status |-> "ok", groups |-> groups]
        ELSE IF nl = -128 THEN bad
        ELSE IF len < 2 + n THEN bad
        ELSE IF ~ValidUtf8(name) THEN bad
        ELSE IF rem < 0 THEN bad
        ELSE IF id > 0 /\ pt.panic THEN bad
        ELSE IF id = -128 /\ oc THEN bad
        ELSE IF id < 0 /\ gt.panic THEN bad
        ELSE IF offset < 0 /\ at >= 0 /\ oc THEN [status |-> "panic", groups |-> next]
        ELSE IF at < 0 \/ at > len THEN [status |-> "panic", groups |-> next]
        ELSE IF at = 0 THEN [status |-> "hang", groups |-> next]
        ELSE Walk(f, base + at, len - at, next, oc)

NoParameter == [magic_word |-> 0, parameter_block_counts |-> 0, groups |-> NoGroups]

\* ParameterBlock::from_reader up to the rekeying: sub-header, buffer, walk
ParameterFromReader(f, p, oc) ==
    LET counts == ByteAt(f, p + 2)
        magic  == ByteAt(f, p + 3)
        size   == counts * BlockSize - 4
        w      == Walk(f, p + 4, size, NoGroups, oc)
        bad    == [status |-> "panic", pos |-> p, magic_word |-> 0,
                   parameter_block_counts |-> 0, byId |-> NoGroups]
    IN  IF ~CanRead(f, p, 4) THEN bad
        ELSE IF counts = 0 THEN bad
        ELSE IF ~CanRead(f, p + 4, size) THEN bad
        ELSE [status |-> w.status, pos |-> p + 4 + size, magic_word |-> magic,
              parameter_block_counts |-> counts, byId |-> w.groups]

\* the collect() into HashMap<String, GroupFormat>: one group per name; when
\* several ids carry one name, the one the hash map's iteration leaves last
GroupNames(byId) == {byId[i].name : i \in DOMAIN byId}
Pickers(byId) ==
    {pk \in [GroupNames(byId) -> DOMAIN byId] :
        \A nm \in GroupNames(byId) : byId[pk[nm]].name = nm}
Rekeyed(byId, pk) == [nm \in GroupNames(byId) |-> byId[pk[nm]]]

----------------------------------------------------------------------------
(* ParameterBlock::get *)

Contains(key, ch) == \E i \in 1..Len(key) : key[i] = ch

\* index of the first ch in key at or after from, Len(key) + 1 when none
RECURSIVE IndexFrom(_, _, _)
IndexFrom(key, ch, from) ==
    IF from > Len(key) THEN Len(key) + 1
    ELSE IF key[from] = ch THEN from
    ELSE IndexFrom(key, ch, from + 1)

NoParam == [id |-> 0, name_chars_size |-> 0, name |-> <<>>, offset |-> 0,
            data_length |-> 0, num_dimensions |-> 0, dimensions |-> <<>>,
            values |-> <<>>, locked |-> FALSE, desc_chars_size |-> 0,
            description |-> <<>>, payload_read |-> 0, entry_at |-> -1,
            desc_at |-> -1]

\* the separator get() splits at: "." when the key holds one, else ":" when
\* it holds one, else none (0)
SplitKey(key) ==
    IF Contains(key, DotChar) THEN DotChar
    ELSE IF Contains(key, ColonChar) THEN ColonChar
    ELSE 0

Get(groups, key) ==
    LET sep == SplitKey(key)
        i1  == IndexFrom(key, sep, 1)
        i2  == IndexFrom(key, sep, i1 + 1)
        group_key == SubSeq(key, 1, i1 - 1)
        param_key == SubSeq(key, i1 + 1, i2 - 1)
    IN  IF sep = 0 THEN [found |-> FALSE, param |-> NoParam]
        ELSE IF group_key \in DOMAIN groups
                /\ param_key \in DOMAIN groups[group_key].params
        THEN [found |-> TRUE, param |-> groups[group_key].params[param_key]]
        ELSE [found |-> FALSE, param |-> NoParam]

----------------------------------------------------------------------------
(* C3dReader::new *)

\* "ANALOG:FORMAT", "ANALOG:OFFSET", "ANALOG:SCALE", "ANALOG:GEN_SCALE"
KeyAnalogFormat == <<65, 78, 65, 76, 79, 71, 58, 70, 79, 82, 77, 65, 84>>
KeyAnalogOffset == <<65, 78, 65, 76, 79, 71, 58, 79, 70, 70, 83, 69, 84>>
KeyAnalogScale == <<65, 78, 65, 76, 79, 71, 58, 83, 67, 65, 76, 69>>
KeyAnalogGenScale == <<65, 78, 65, 76, 79, 71, 58, 71, 69, 78, 95, 83, 67, 65, 76, 69>>

\* values.iter().filter_map(|v| v.as_<kind>()), the values of one kind in order
RECURSIVE OfKind(_, _)
OfKind(values, kind) ==
    IF values = <<>> THEN <<>>
    ELSE IF Head(values).kind = kind
         THEN <<Head(values).v>> \o OfKind(Tail(values), kind)
         ELSE OfKind(Tail(values), kind)

\* analog_unsigned: get(..).map(..).and(Some("UNSIGNED")).is_some()
AnalogUnsigned(groups) == Get(groups, KeyAnalogFormat).found

\* an Option<Vec<f32>>: i16 offsets converted to f32 (hundredths)
AnalogOffset(groups) ==
    LET g == Get(groups, KeyAnalogOffset)
        v == OfKind(g.param.values, "i16")
    IN  [some |-> g.found,
         v |-> IF g.found THEN [k \in 1..Len(v) |-> v[k] * 100] ELSE <<>>]

AnalogScale(groups) ==
    LET g == Get(groups, KeyAnalogScale)
    IN  [some |-> g.found,
         v |-> IF g.found THEN OfKind(g.param.values, "f32") ELSE <<>>]

\* the first f32 of ANALOG:GEN_SCALE, none when absent or without f32 values
AnalogGenScale(groups) ==
    LET g == Get(groups, KeyAnalogGenScale)
        v == IF g.found THEN OfKind(g.param.values, "f32") ELSE <<>>
    IN  [some |-> v # <<>>, v |-> IF v # <<>> THEN <<v[1]>> ELSE <<>>]

NewReader(hdr, groups) ==
    [frame_idx        |-> hdr.frame_first,
     analog_unsigned  |-> AnalogUnsigned(groups),
     analog_offset    |-> AnalogOffset(groups),
     analog_scale     |-> AnalogScale(groups),
     analog_gen_scale |-> AnalogGenScale(groups)]

----------------------------------------------------------------------------
(* C3dReader::next: the decode of one frame. *)

\* f32 product, in hundredths
MulF(a, b) == (a \div 100) * b + ((a % 100) * b) \div 100

\* `x as i16` of an f32: truncation toward zero, saturating
TruncI16(h) ==
    LET q == IF h >= 0 THEN h \div 100 ELSE -((-h) \div 100)
    IN  IF q > 32767 THEN 32767 ELSE IF q < -32768 THEN -32768 ELSE q

\* (8..17).map(|idx| (err & (idx << 8)) as f32).sum(), in hundredths
RECURSIVE CameraSum(_, _)
CameraSum(err, idx) ==
    IF idx >= 17 THEN 0
    ELSE BitAnd(ToU16(err), idx * 256) * 100 + CameraSum(err, idx + 1)

\* one element of a point word at file offset at
PointElem(f, at, is_float, point_scale) ==
    IF is_float THEN F32At(f, at)
    ELSE MulF(I16At(f, at) * 100, point_scale)

\* the second map: residual and cameras from the fourth element
PointTail(arr, scale) ==
    IF arr[4] <= -1
    THEN [arr EXCEPT ![4] = -1, ![5] = -1]
    ELSE LET err == TruncI16(arr[4])
         IN  [arr EXCEPT ![4] = MulF(BitAnd(ToU16(err), 255) * 100, AbsInt(scale)),
                         ![5] = CameraSum(err, 8)]

\* one point word (4 elements of wl bytes) at file offset at
PointAt(f, at, wl, is_float, point_scale, scale) ==
    PointTail([k \in 1..5 |->
                  IF k = 5 THEN 0
                  ELSE PointElem(f, at + (k - 1) * wl, is_float, point_scale)],
              scale)

\* one analog sample at file offset at
AnalogAt(f, at, is_float, unsigned) ==
    IF is_float THEN F32At(f, at)
    ELSE IF unsigned THEN U16At(f, at) * 100
    ELSE I16At(f, at) * 100

\* the calibration with the per-channel scale applied before the offset
CalibrateScaleFirst(values, rd) ==
    LET scl == [k \in 1..Len(values) |->
                   IF rd.analog_scale.some /\ k <= Len(rd.analog_scale.v)
                   THEN MulF(values[k], rd.analog_scale.v[k]) ELSE values[k]]
        off == [k \in 1..Len(values) |->
                   IF rd.analog_offset.some /\ k <= Len(rd.analog_offset.v)
                   THEN scl[k] - rd.analog_offset.v[k] ELSE scl[k]]
    IN  [k \in 1..Len(values) |->
            IF rd.analog_gen_scale.some
            THEN MulF(off[k], rd.analog_gen_scale.v[1]) ELSE off[k]]

\* offsets, scales and the general scale applied to the decoded samples
Calibrate(values, rd) ==
    LET off == [k \in 1..Len(values) |->
                   IF rd.analog_offset.some /\ k <= Len(rd.analog_offset.v)
                   THEN values[k] - rd.analog_offset.v[k] ELSE values[k]]
        scl == [k \in 1..Len(values) |->
                   IF rd.analog_scale.some /\ k <= Len(rd.analog_scale.v)
                   THEN MulF(off[k], rd.analog_scale.v[k]) ELSE off[k]]
    IN  [k \in 1..Len(values) |->
            IF rd.analog_gen_scale.some
            THEN MulF(scl[k], rd.analog_gen_scale.v[1]) ELSE scl[k]]

NoItem == [idx |-> 0, points |-> <<>>, analog |-> [some |-> FALSE, values |-> <<>>]]

\* next(): res is "None", "Some" or "Panic"; used: the bytes consumed from the
\* source; short: a read_exact failed; rd: the iterator afterwards
NextOf(f, p, hdr, rd, oc) ==
    LET is_float    == hdr.scale <= 0
        wl          == IF is_float THEN 4 ELSE 2
        point_scale == IF is_float THEN 100 ELSE AbsInt(hdr.scale)
        pn_raw      == 4 * hdr.point_counts
        points_n    == pn_raw % 65536
        pb_raw      == points_n * wl
        pbytes      == pb_raw % 65536
        ab_raw      == hdr.analog_counts * wl
        abytes      == ab_raw % 65536
        points      == [k \in 1..(pbytes \div (4 * wl)) |->
                           PointAt(f, p + (k - 1) * 4 * wl, wl, is_float,
                                   point_scale, hdr.scale)]
        raw         == [k \in 1..(abytes \div wl) |->
                           AnalogAt(f, p + pbytes + (k - 1) * wl, is_float,
                                    rd.analog_unsigned)]
        analog      == IF hdr.analog_counts > 0
                       THEN [some |-> TRUE, values |-> Calibrate(raw, rd)]
                       ELSE [some |-> FALSE, values |-> <<>>]
        used        == pbytes + (IF hdr.analog_counts > 0 THEN abytes ELSE 0)
        out(res, u, sh, r, it) ==
            [res |-> res, used |-> u, short |-> sh, rd |-> r, item |-> it]
    IN  IF rd.frame_idx > hdr.frame_last THEN out("None", 0, FALSE, rd, NoItem)
        ELSE IF oc /\ (pn_raw > 65535 \/ pb_raw > 65535)
             THEN out("Panic", 0, FALSE, rd, NoItem)
        ELSE IF ~CanRead(f, p, pbytes) THEN out("None", 0, TRUE, rd, NoItem)
        ELSE IF hdr.analog_counts > 0 /\ oc /\ ab_raw > 65535
             THEN out("Panic", pbytes, FALSE, rd, NoItem)
        ELSE IF hdr.analog_counts > 0 /\ ~CanRead(f, p + pbytes, abytes)
             THEN out("None", pbytes, TRUE, rd, NoItem)
        ELSE IF rd.frame_idx = 65535 /\ oc THEN out("Panic", used, FALSE, rd, NoItem)
        ELSE out("Some", used, FALSE,
                 [rd EXCEPT !.frame_idx = (rd.frame_idx + 1) % 65536],
                 [idx |-> rd.frame_idx, points |-> points, analog |-> analog])

----------------------------------------------------------------------------
(* The calls on the adapter. *)

ReaderIds == 1..MaxReaders

Result(op, by, res) ==
    [op |-> op, by |-> by, res |-> res, item |-> NoItem, key |-> <<>>,
     param |-> NoParam]

Without(fn, r) == [x \in DOMAIN fn \ {r} |-> fn[x]]

MaxOf(a, b) == IF a >= b THEN a ELSE b

\* C3dAdapter::new(file) followed by construct()
Open ==
    /\ stage = "new"
    /\ LET h  == HeaderFromReader(file, 0)
           pr == ParameterFromReader(file, h.pos, overflow_checks)
           fail(res, p) ==
               /\ stage' = "failed"
               /\ outcome' = Result("open", 0, res)
               /\ pos' = p
               /\ UNCHANGED <<header, parameter>>
       IN  IF h.panic THEN fail("Panic", 0)
           ELSE IF pr.status = "panic" THEN fail("Panic", h.pos)
           ELSE IF pr.status = "hang" THEN fail("Hang", h.pos)
           ELSE IF h.hdr.magic_word # HeaderMagic THEN fail("UnmatchMagic", pr.pos)
           ELSE IF pr.magic_word # ParameterMagic THEN fail("UnmatchMagic", pr.pos)
           ELSE \E pk \in Pickers(pr.byId) :
                    /\ stage' = "constructed"
                    /\ outcome' = Result("open", 0, "Ok")
                    /\ pos' = pr.pos
                    /\ header' = h.hdr
                    /\ parameter' = [magic_word |-> pr.magic_word,
                                     parameter_block_counts |-> pr.parameter_block_counts,
                                     groups |-> Rekeyed(pr.byId, pk)]
    /\ UNCHANGED <<file, overflow_checks, borrowed, readers, emitted>>

\* a borrow that does not consult the cell's borrow flag
TryBorrowMutUnchecked(flag) == TRUE

\* self.handle.borrow_mut() succeeds: no RefMut of the cell is alive
TryBorrowMut(flag) == ~flag

\* the position C3dReader::new seeks to; data_start = 0 wraps to 2^64 - 512,
\* modelled as a position past the file and past every other data start
DataSeek(hdr, len) ==
    IF hdr.data_start = 0 THEN MaxOf(len, 65535 * BlockSize) + 1
    ELSE (hdr.data_start - 1) * BlockSize

\* C3dAdapter::reader(), the new iterator named r
Reader(r) ==
    /\ stage \in {"new", "constructed"}
    /\ r \notin DOMAIN readers
    /\ \E seek_ok \in BOOLEAN :
        IF stage = "new"
        THEN /\ outcome' = Result("reader", r, "MissingField")
             /\ UNCHANGED <<pos, borrowed, readers, emitted>>
        ELSE IF ~TryBorrowMut(borrowed)
        THEN /\ outcome' = Result("reader", r, "Panic")
             /\ UNCHANGED <<pos, borrowed, readers, emitted>>
        ELSE IF header.data_start = 0 /\ overflow_checks
        THEN /\ outcome' = Result("reader", r, "Panic")
             /\ UNCHANGED <<pos, borrowed, readers, emitted>>
        ELSE IF header.data_start = 0 /\ ~seek_ok
        THEN /\ outcome' = Result("reader", r, "IoError")
             /\ UNCHANGED <<pos, borrowed, readers, emitted>>
        ELSE /\ pos' = DataSeek(header, file.len)
             /\ borrowed' = TRUE
             /\ readers' = (r :> NewReader(header, parameter.groups)) @@ readers
             /\ emitted' = (r :> <<>>) @@ emitted
             /\ outcome' = Result("reader", r, "Ok")
    /\ UNCHANGED <<file, overflow_checks, stage, header, parameter>>

\* Iterator::next() on the live iterator r
NextFrame(r) ==
    /\ r \in DOMAIN readers
    /\ Len(emitted[r]) < MaxFrames
    /\ LET n == NextOf(file, pos, header, readers[r], overflow_checks)
       IN  /\ readers' = [readers EXCEPT ![r] = n.rd]
           /\ outcome' = [Result("next", r, n.res) EXCEPT !.item = n.item]
           /\ emitted' = IF n.res = "Some"
                         THEN [emitted EXCEPT ![r] = Append(@, n.item.idx)]
                         ELSE emitted
           /\ \E eof \in BOOLEAN :
                  pos' = IF n.short /\ eof
                         THEN MaxOf(pos + n.used, file.len)
                         ELSE pos + n.used
    /\ UNCHANGED <<file, overflow_checks, stage, header, parameter, borrowed>>

\* the iterator r goes out of scope: its RefMut releases the cell
DropReader(r) ==
    /\ r \in DOMAIN readers
    /\ readers' = Without(readers, r)
    /\ emitted' = Without(emitted, r)
    /\ borrowed' = FALSE
    /\ outcome' = Result("drop", r, "Ok")
    /\ UNCHANGED <<file, overflow_checks, pos, stage, header, parameter>>

\* the keys asked of get(): GROUP:NAME and GROUP.NAME of every stored
\* parameter, and keys without a separator
QueryKeys(groups) ==
    {g \o <<sep>> \o n : g \in DOMAIN groups,
                         n \in UNION {DOMAIN groups[x].params : x \in DOMAIN groups},
                         sep \in {ColonChar, DotChar}}
    \cup DOMAIN groups

\* adapter.parameter.get(key)
GetParam(key) ==
    /\ stage = "constructed"
    /\ LET g == Get(parameter.groups, key)
       IN  outcome' = [Result("get", 0, IF g.found THEN "Some" ELSE "None")
                          EXCEPT !.key = key, !.param = g.param]
    /\ UNCHANGED <<file, overflow_checks, pos, stage, header, parameter,
                   borrowed, readers, emitted>>

----------------------------------------------------------------------------
(* Byte sources the model is run on: encoders of the file layout. *)

Le16(v) == <<(v + 65536) % 256, ((v + 65536) \div 256) % 256>>

\* the little endian bytes of the f32 with the value h hundredths
F32Bytes(h) ==
    CASE h = 0 -> <<0, 0, 0, 0>>
      [] h = 25 -> <<0, 0, 128, 62>>
      [] h = 50 -> <<0, 0, 0, 63>>
      [] h = 100 -> <<0, 0, 128, 63>>
      [] h = 200 -> <<0, 0, 0, 64>>
      [] h = 300 -> <<0, 0, 64, 64>>
      [] h = 1500 -> <<0, 0, 112, 65>>
      [] h = 2400 -> <<0, 0, 192, 65>>
      [] h = -100 -> <<0, 0, 128, 191>>

RECURSIVE Flatten(_)
Flatten(ss) == IF ss = <<>> THEN <<>> ELSE Head(ss) \o Flatten(Tail(ss))

\* the fields of the header the reader uses, bytes 0..17 of the file
HeaderBytes(h) ==
    <<h.parameter_start, h.magic_word>> \o Le16(h.point_counts)
    \o Le16(h.analog_counts) \o Le16(h.frame_first) \o Le16(h.frame_last)
    \o <<0, 0>> \o F32Bytes(h.scale) \o Le16(h.data_start)

Hdr(magic, pc, ac, ff, fl, scale, ds) ==
    [parameter_start |-> 2, magic_word |-> magic, point_counts |-> pc,
     analog_counts |-> ac, frame_first |-> ff, frame_last |-> fl,
     scale |-> scale, data_start |-> ds]

\* a group entry whose offset field points at the end of the entry
GroupEntry(locked, gid, name, desc) ==
    <<(IF locked THEN 256 - Len(name) ELSE Len(name)), 256 - gid>> \o name
    \o Le16(3 + Len(desc)) \o <<Len(desc)>> \o desc

\* a parameter entry whose offset field points at the end of the entry
ParamEntry(locked, gid, name, dl, dims, payload, desc) ==
    <<(IF locked THEN 256 - Len(name) ELSE Len(name)), gid>> \o name
    \o Le16(5 + Len(dims) + Len(payload) + Len(desc))
    \o <<(dl + 256) % 256, Len(dims)>> \o dims \o payload
    \o <<Len(desc)>> \o desc

\* the parameter section: sub-header and entries
Section(counts, magic, entries) == <<0, 0, counts, magic>> \o Flatten(entries)

Put(nz, at, bytes) ==
    [i \in DOMAIN nz \cup {at + k - 1 : k \in 1..Len(bytes)} |->
        IF i - at + 1 \in 1..Len(bytes) THEN bytes[i - at + 1] ELSE nz[i]]

Strip(nz) == [i \in {j \in DOMAIN nz : nz[j] # 0} |-> nz[i]]

\* a file of len bytes: header at 0, parameter section at 512, data at data_at
MkFile(len, h, section, data_at, data) ==
    LET nz == Strip(Put(Put(Put([i \in {} |-> 0], 0, HeaderBytes(h)),
                            BlockSize, section), data_at, data))
    IN  [len |-> len, nz |-> [i \in {j \in DOMAIN nz : j < len} |-> nz[i]]]

\* sources for construct(): both header magics, short and whole sources,
\* decodable and undecodable parameter sections
OpenSections ==
    { Section(1, 84, <<>>), Section(0, 84, <<>>), Section(1, 85, <<>>),
      Section(1, 84, << <<5, 1, 65>> >>),
      Section(2, 84, << GroupEntry(FALSE, 1, <<71>>, <<>>) >>) }

OpenFiles ==
    { MkFile(len, Hdr(magic, 0, 0, 1, 1, 100, 3), sec, 2 * BlockSize, <<>>) :
        len \in {2, 300, 512, 515, 516, 1023, 1024, 1536},
        magic \in {80, 81},
        sec \in OpenSections }

\* the first n bytes of a pattern
Take(bytes, n) == SubSeq(bytes, 1, IF n <= Len(bytes) THEN n ELSE Len(bytes))

\* integer point words (x, y, z, w) and samples; float point words and samples
IntPattern ==
    Flatten(<< Le16(4), Le16(8), Le16(12), Le16(261),
               Le16(-4), Le16(0), Le16(16), Le16(-1),
               Le16(1), Le16(2), Le16(3), Le16(768),
               Le16(65535), Le16(1), Le16(0), Le16(0),
               Le16(4), Le16(8), Le16(12), Le16(3),
               Le16(0), Le16(0), Le16(0), Le16(32767) >>)
FloatPattern ==
    Flatten(<< F32Bytes(100), F32Bytes(200), F32Bytes(300), F32Bytes(0),
               F32Bytes(1500), F32Bytes(2400), F32Bytes(-100), F32Bytes(300),
               F32Bytes(100), F32Bytes(25), F32Bytes(50), F32Bytes(-100) >>)
Pattern(scale) == IF scale <= 0 THEN FloatPattern ELSE IntPattern

EmptySection == Section(1, 84, <<>>)

\* a file with an empty parameter section and n data bytes at block 3
DataFile(h, n) ==
    MkFile(2 * BlockSize + n, h, EmptySection, 2 * BlockSize,
           Take(Pattern(h.scale), n))

\* frame ranges, up to the end of the u16 range, over whole and cut data
FrameRanges ==
    {<<1, 1>>, <<1, 2>>, <<1, 3>>, <<3, 3>>, <<2, 1>>, <<65534, 65535>>,
     <<65535, 65535>>}

FrameFiles ==
    { DataFile(Hdr(80, pc, ac, fr[1], fr[2], scale, 3), n) :
        pc \in {0, 1}, ac \in {0, 1}, fr \in FrameRanges, scale \in {25, -100},
        n \in {0, 7, 8, 16, 20, 24, 48} }

\* point and analog counts up to where the 16 bit byte counts wrap
CountFiles ==
    { DataFile(Hdr(80, pc, ac, 1, 1, scale, ds), n) :
        pc \in {0, 1, 2, 8192, 16384, 16385},
        ac \in {0, 2, 16384, 32768, 32769},
        scale \in {25, -100}, ds \in {3}, n \in {0, 48} }
    \cup { DataFile(Hdr(80, 1, 0, 1, 1, 100, ds), 48) : ds \in {0, 2, 4} }

\* integer point words under several scales
PointFiles ==
    { DataFile(Hdr(80, pc, 0, 1, 2, scale, 3), 48) :
        pc \in {1, 2, 3}, scale \in {25, 50, 100, 200} }

RECURSIVE Zeros(_)
Zeros(n) == IF n = 0 THEN <<>> ELSE <<0>> \o Zeros(n - 1)

\* "ANALOG", "FORMAT", "OFFSET", "SCALE", "GEN_SCALE", "UNSIGNED", "SIGNED"
NameAnalog == <<65, 78, 65, 76, 79, 71>>
NameFormat == <<70, 79, 82, 77, 65, 84>>
NameOffset == <<79, 70, 70, 83, 69, 84>>
NameScale == <<83, 67, 65, 76, 69>>
NameGenScale == <<71, 69, 78, 95, 83, 67, 65, 76, 69>>
TextUnsigned == <<85, 78, 83, 73, 71, 78, 69, 68>>
TextSigned == <<83, 73, 71, 78, 69, 68>>

CharParam(gid, name, text) ==
    ParamEntry(FALSE, gid, name, -1, <<Len(text)>>, text, <<>>)

\* the ANALOG group with each calibration parameter absent or present
FormatEntries ==
    { <<>>,
      << CharParam(2, NameFormat, TextUnsigned) >>,
      << CharParam(2, NameFormat, TextSigned) >>,
      << CharParam(2, NameFormat, TextUnsigned \o <<32, 32>>) >> }
OffsetEntries ==
    { <<>>,
      << ParamEntry(FALSE, 2, NameOffset, 2, <<2>>, Le16(10) \o Le16(20), <<>>) >>,
      << ParamEntry(FALSE, 2, NameOffset, 2, <<1>>, Le16(10), <<>>) >> }
ScaleEntries ==
    { <<>>,
      << ParamEntry(FALSE, 2, NameScale, 4, <<2>>,
                    F32Bytes(200) \o F32Bytes(50), <<>>) >> }
GenScaleEntries ==
    { <<>>,
      << ParamEntry(FALSE, 2, NameGenScale, 4, <<>>, F32Bytes(300), <<>>) >> }

AnalogSections ==
    { Section(1, 84, << GroupEntry(FALSE, 2, NameAnalog, <<>>) >> \o fmt \o off
                     \o scl \o gen) :
        fmt \in FormatEntries, off \in OffsetEntries, scl \in ScaleEntries,
        gen \in GenScaleEntries }

AnalogData(scale) ==
    IF scale <= 0 THEN F32Bytes(1500) \o F32Bytes(2400)
    ELSE Le16(65535) \o Le16(1)

AnalogFiles ==
    { MkFile(2 * BlockSize + 8, Hdr(80, 0, 2, 1, 1, scale, 3), sec,
             2 * BlockSize, AnalogData(scale)) :
        scale \in {100, -100}, sec \in AnalogSections }

\* a file whose parameter section holds the given entries, and no frames' data
DictFile(entries) ==
    MkFile(2 * BlockSize, Hdr(80, 0, 0, 1, 1, 100, 3), Section(1, 84, entries),
           2 * BlockSize, <<>>)

\* group G (id 1) with a description, and its parameter N, locked or not
EntryG(locked) == GroupEntry(locked, 1, <<71>>, <<100, 103>>)
EntryN(locked) == ParamEntry(locked, 1, <<78>>, 1, <<>>, <<7>>, <<100, 112>>)

\* the same two entries, group first and parameter first
OrderPairs ==
    { << DictFile(<< EntryG(lg), EntryN(lp) >>),
         DictFile(<< EntryN(lp), EntryG(lg) >>) >> :
        lg \in BOOLEAN, lp \in BOOLEAN }

OrderFiles == {pr[1] : pr \in OrderPairs} \cup {pr[2] : pr \in OrderPairs}

\* parameters whose names hold separators, for the keys of get()
KeyFiles ==
    { DictFile(<< GroupEntry(FALSE, 1, <<71>>, <<>>),
                  ParamEntry(FALSE, 1, <<78>>, 1, <<>>, <<7>>, <<>>) >> \o more) :
        more \in { <<>>,
                   << ParamEntry(FALSE, 1, <<78, 46, 88>>, 1, <<>>, <<9>>, <<>>) >>,
                   << ParamEntry(FALSE, 1, <<78, 58, 88>>, 1, <<>>, <<9>>, <<>>) >>,
                   << GroupEntry(FALSE, 3, <<71, 58, 78>>, <<>>),
                      ParamEntry(FALSE, 3, <<88>>, 1, <<>>, <<5>>, <<>>),
                      ParamEntry(FALSE, 1, <<78, 46, 88>>, 1, <<>>, <<9>>, <<>>) >>,
                   << GroupEntry(FALSE, 3, <<71>>, <<>>) >> } }

\* parameters of every element width and of several shapes
ShapeDims == { <<>>, <<2>>, <<2, 3>>, <<0>>, <<255, 255>>, <<64, 25, 41>> }
ShapeWidths == {-1, 1, 2, 4, 3, -2, 0, -128}
PayloadOf(dl, dims) ==
    LET n == DimProduct(dims, 1, [exact |-> 1, ovf |-> FALSE, lo16 |-> 1]).exact
            * AbsInt(dl)
    IN  IF n <= 24 THEN Zeros(n) ELSE Zeros(64)

ShapeFiles ==
    { DictFile(<< GroupEntry(FALSE, 1, <<71>>, <<>>),
                  ParamEntry(FALSE, 1, <<78>>, dl, dims, PayloadOf(dl, dims),
                             <<100>>) >>) :
        dl \in ShapeWidths, dims \in ShapeDims }

\* entries the walk does not step over in the regular way
OddFiles ==
    { DictFile(<< e >>) :
        e \in { <<1, 255, 71, 0, 0, 0>>,
                <<1, 255, 71, 253, 255, 0>>,
                <<1, 255, 71, 254, 255, 0>>,
                <<1, 255, 71, 0, 4, 0>>,
                <<128, 255, 71, 3, 0, 0>>,
                <<128, 0, 71, 3, 0, 0>>,
                <<1, 128, 71, 3, 0, 0>>,
                <<1, 255, 255, 3, 0, 0>>,
                <<2, 255, 195, 169, 3, 0, 1>>,
                <<1, 255, 71, 3, 0, 0, 1, 1>> } }

\* files whose header names block 3 as the first parameter block: block 2
\* is empty or holds another section, block 3 holds the section of G and N
StartFiles ==
    { MkFile(3 * BlockSize,
             [Hdr(80, 0, 0, 1, 1, 100, 4) EXCEPT !.parameter_start = 3],
             second, 2 * BlockSize,
             Section(1, 84, << EntryG(FALSE), EntryN(FALSE) >>)) :
        second \in { <<>>,
                     Section(1, 84, << GroupEntry(FALSE, 1, <<68>>, <<>>) >>),
                     Section(1, 84, << EntryG(FALSE), EntryN(FALSE) >>) } }

\* a group entry without description whose offset field holds offset
GroupAt(gid, name, offset) ==
    <<Len(name), 256 - gid>> \o name \o Le16(offset) \o <<0>>

\* sections of well-formed entries that differ in where the offsets lead:
\* to the zero bytes after the entry, nowhere (offset 0), over two unused
\* bytes to the next entry, beyond the buffer, back onto the entry itself,
\* and exactly to the end of the buffer
WalkFiles ==
    { DictFile(es) :
        es \in { << GroupAt(1, <<71>>, 3) >>,
                 << GroupAt(1, <<71>>, 0) >>,
                 << GroupAt(1, <<71>>, 5), <<9, 9>>, EntryN(FALSE) >>,
                 << GroupAt(1, <<71>>, 2 * BlockSize) >>,
                 << GroupAt(1, <<71>>, -3) >>,
                 << GroupAt(1, <<71>>, BlockSize - 4 - 3) >> } }

AllFiles ==
    WalkFiles \cup OpenFiles \cup FrameFiles \cup CountFiles \cup PointFiles \cup AnalogFiles
    \cup OrderFiles \cup KeyFiles \cup ShapeFiles \cup OddFiles \cup StartFiles

----------------------------------------------------------------------------
(* The specification. *)

NoCall == Result("none", 0, "none")

Init ==
    /\ file \in AllFiles
    /\ overflow_checks \in BOOLEAN
    /\ pos = 0
    /\ stage = "new"
    /\ header = NoHeader
    /\ parameter = NoParameter
    /\ borrowed = FALSE
    /\ readers = [x \in {} |-> 0]
    /\ emitted = [x \in {} |-> 0]
    /\ outcome = NoCall

Next ==
    \/ Open
    \/ \E r \in ReaderIds : Reader(r)
    \/ \E r \in ReaderIds : NextFrame(r)
    \/ \E r \in ReaderIds : DropReader(r)
    \/ \E key \in QueryKeys(parameter.groups) : GetParam(key)

Spec == Init /\ [][Next]_vars

----------------------------------------------------------------------------
(* The claims. *)

\* C1: a source whose second byte is not 0x50 always ends construct() with
\* UnmatchMagic (BadMagic), whatever else the source holds
C1_BadMagicRejected ==
    (outcome.op = "open" /\ file.len >= 2 /\ ByteAt(file, 1) # HeaderMagic)
        => outcome.res = "UnmatchMagic"

\* the frames of the source: bytes per frame, and complete frames from the
\* data start (for headers whose byte counts fit 16 bits)
WordLen == IF header.scale <= 0 THEN 4 ELSE 2
FrameBytes == 4 * header.point_counts * WordLen + header.analog_counts * WordLen
SmallCounts == header.point_counts <= 3 /\ header.analog_counts <= 3
DataOffset == (header.data_start - 1) * BlockSize
FramesInRange == header.frame_last - header.frame_first + 1
MinOf(a, b) == IF a <= b THEN a ELSE b

\* C2: for frame_first <= frame_last the iterator yields frame_first,
\* frame_first + 1, ... without gaps, frame_last - frame_first + 1 records
\* when the source holds them and the complete ones otherwise, then ends;
\* it never aborts
C2_FramesInOrderThenEnd ==
    \A r \in DOMAIN readers :
        (SmallCounts /\ header.data_start >= 1
         /\ header.frame_first <= header.frame_last)
        => /\ \A k \in 1..Len(emitted[r]) :
                  emitted[r][k] = header.frame_first + k - 1
           /\ Len(emitted[r]) <= FramesInRange
           /\ (outcome.op = "next" /\ outcome.by = r)
                  => outcome.res \in {"Some", "None"}
           /\ (outcome.op = "next" /\ outcome.by = r /\ outcome.res = "None"
               /\ FrameBytes > 0 /\ file.len >= DataOffset)
                  => Len(emitted[r]) =
                        MinOf(FramesInRange, (file.len - DataOffset) \div FrameBytes)

\* C3: every emitted frame has point_counts points and, when it has an analog
\* record, analog_counts samples, for every u16 count in both modes
C3_RecordLengths ==
    (outcome.op = "next" /\ outcome.res = "Some")
        => /\ Len(outcome.item.points) = header.point_counts
           /\ outcome.item.analog.some
                  => Len(outcome.item.analog.values) = header.analog_counts

\* C4: in integer mode x, y, z are the raw i16 times scale, and for a point
\* whose raw fourth word w is not negative the residual is (w & 0xFF) x |scale|
\* and cameras are the high bits of the same raw w
C4_RawFourthWord ==
    (outcome.op = "next" /\ outcome.res = "Some" /\ header.scale > 0
     /\ SmallCounts)
        => \A k \in 1..Len(outcome.item.points) :
              LET at == pos - FrameBytes + (k - 1) * 8
                  w  == I16At(file, at + 6)
                  pt == outcome.item.points[k]
              IN  /\ pt[1] = I16At(file, at) * header.scale
                  /\ pt[2] = I16At(file, at + 2) * header.scale
                  /\ pt[3] = I16At(file, at + 4) * header.scale
                  /\ w >= 0 => /\ pt[4] = BitAnd(w, 255) * header.scale
                               /\ pt[5] = BitAnd(w, 65280) * 100

\* char::is_whitespace for the chars a payload byte converts to
IsWhitespace(b) == b \in {9, 10, 11, 12, 13, 32, 133, 160}

RECURSIVE StripWhitespace(_)
StripWhitespace(text) ==
    IF text = <<>> THEN <<>>
    ELSE IF IsWhitespace(Head(text)) THEN StripWhitespace(Tail(text))
    ELSE <<Head(text)>> \o StripWhitespace(Tail(text))

\* ANALOG:FORMAT is present and its whitespace-stripped chars are "UNSIGNED"
FormatIsUnsigned ==
    LET g == Get(parameter.groups, KeyAnalogFormat)
    IN  g.found /\ StripWhitespace(OfKind(g.param.values, "char")) = TextUnsigned

\* C5: in integer mode the samples are decoded as u16 if and only if
\* ANALOG:FORMAT is present with the value "UNSIGNED", and as i16 otherwise
C5_UnsignedIffFormatUnsigned ==
    (outcome.op = "next" /\ outcome.res = "Some" /\ header.scale > 0
     /\ outcome.item.analog.some /\ SmallCounts /\ outcome.by \in DOMAIN readers)
        => LET rd == readers[outcome.by]
               at(k) == pos - FrameBytes + 8 * header.point_counts + 2 * (k - 1)
           IN  (~rd.analog_offset.some /\ ~rd.analog_scale.some
                /\ ~rd.analog_gen_scale.some)
               => \A k \in 1..Len(outcome.item.analog.values) :
                      outcome.item.analog.values[k] =
                          IF FormatIsUnsigned THEN U16At(file, at(k)) * 100
                          ELSE I16At(file, at(k)) * 100

\* the lookup the claim describes: split at the first ':' or '.', the text
\* before it is the group, the text after it the parameter
FirstSeparator(key) == MinOf(IndexFrom(key, ColonChar, 1), IndexFrom(key, DotChar, 1))
LookupAtFirstSeparator(groups, key) ==
    LET i == FirstSeparator(key)
        g == SubSeq(key, 1, i - 1)
        n == SubSeq(key, i + 1, Len(key))
    IN  IF i <= Len(key) /\ g \in DOMAIN groups /\ n \in DOMAIN groups[g].params
        THEN [found |-> TRUE, param |-> groups[g].params[n]]
        ELSE [found |-> FALSE, param |-> NoParam]

\* C6: get(key) splits at the first separator, whichever of ':' and '.' it
\* is, and get("G:N") and get("G.N") both return parameter N of group G
C6_FirstSeparatorWins ==
    /\ outcome.op = "get"
          => LET want == LookupAtFirstSeparator(parameter.groups, outcome.key)
             IN  /\ (outcome.res = "Some") = want.found
                 /\ outcome.param = want.param
    /\ stage = "constructed"
          => \A g \in DOMAIN parameter.groups :
                \A n \in DOMAIN parameter.groups[g].params :
                   \A sep \in {ColonChar, DotChar} :
                      LET got == Get(parameter.groups, g \o <<sep>> \o n)
                      IN  got.found /\ got.param = parameter.groups[g].params[n]

\* C7: at most one iterator holds the byte source, and a reader() call made
\* while an iterator is alive gives no second iterator and leaves the live
\* one's file position and frame index as they were
C7_SingleIterator ==
    /\ [](Cardinality(DOMAIN readers) <= 1)
    /\ [][(DOMAIN readers # {} /\ outcome'.op = "reader")
             => (outcome'.res # "Ok" /\ UNCHANGED <<pos, readers>>)]_vars

\* C7 witness: reader() was called while an iterator that already returned a
\* frame was alive
C7_SecondReaderRefused ==
    \E r \in DOMAIN readers :
        /\ outcome.op = "reader" /\ outcome.by # r /\ outcome.res = "Panic"
        /\ header.data_start > 0
        /\ Len(emitted[r]) >= 1

\* what the dictionary holds of a group, without the offsets of its entries
ParamView(p) ==
    [name |-> p.name, description |-> p.description, locked |-> p.locked,
     data_length |-> p.data_length, dimensions |-> p.dimensions,
     values |-> p.values]
GroupView(g) ==
    [name |-> g.name, description |-> g.description, locked |-> g.locked,
     params |-> [n \in DOMAIN g.params |-> ParamView(g.params[n])]]
DictView(groups) == [nm \in DOMAIN groups |-> GroupView(groups[nm])]

\* the dictionary decoded from file f
DictOf(f) ==
    LET pr == ParameterFromReader(f, BlockSize, overflow_checks)
    IN  Rekeyed(pr.byId, CHOOSE pk \in Pickers(pr.byId) : TRUE)

NameLenAt(at) == ToI8(ByteAt(file, at))

\* C8: the dictionary is the same for both orders of a group entry and its
\* parameter entries, and every locked flag is the sign of the name_len byte
C8_OrderIndependent ==
    stage = "constructed"
        => /\ \A pr \in OrderPairs :
                 file = pr[1] => DictView(parameter.groups) = DictView(DictOf(pr[2]))
           /\ \A nm \in DOMAIN parameter.groups :
                 LET g == parameter.groups[nm]
                 IN  /\ g.entry_at >= 0 => g.locked = (NameLenAt(g.entry_at) < 0)
                     /\ \A n \in DOMAIN g.params :
                           g.params[n].locked = (NameLenAt(g.params[n].entry_at) < 0)

\* C9: every stored name is the |name_len| bytes after the id byte and every
\* stored description the desc_len bytes after the desc_len byte of its entry
C9_NamesAndDescriptionsFromFile ==
    stage = "constructed"
        => \A nm \in DOMAIN parameter.groups :
              LET g == parameter.groups[nm]
              IN  /\ g.entry_at >= 0
                        => /\ g.name = BytesAt(file, g.entry_at + 2,
                                               AbsInt(NameLenAt(g.entry_at)))
                           /\ g.description =
                                 BytesAt(file, g.desc_at, ByteAt(file, g.desc_at - 1))
                  /\ \A n \in DOMAIN g.params :
                        LET p == g.params[n]
                        IN  /\ p.name = BytesAt(file, p.entry_at + 2,
                                                AbsInt(NameLenAt(p.entry_at)))
                            /\ p.description =
                                  BytesAt(file, p.desc_at, ByteAt(file, p.desc_at - 1))

RECURSIVE Product(_)
Product(dims) == IF dims = <<>> THEN 1 ELSE Head(dims) * Product(Tail(dims))

\* C10: every stored parameter has as many values as the product of its
\* dimensions, and that many times |data_length| payload bytes were read
C10_ValueCountIsDimsProduct ==
    stage = "constructed"
        => \A nm \in DOMAIN parameter.groups :
              \A n \in DOMAIN parameter.groups[nm].params :
                 LET p == parameter.groups[nm].params[n]
                 IN  /\ Len(p.values) = Product(p.dimensions)
                     /\ Len(p.values) * AbsInt(p.data_length) = p.payload_read

\* the values of parameter n of group ANALOG in the dictionary, none if absent
AnalogParam(n, kind) ==
    LET gs == parameter.groups
        has == NameAnalog \in DOMAIN gs /\ n \in DOMAIN gs[NameAnalog].params
    IN  [some |-> has,
         v |-> IF has THEN OfKind(gs[NameAnalog].params[n].values, kind) ELSE <<>>]

\* C11: every emitted analog value is the raw sample with the offset
\* subtracted first, then multiplied by the channel's scale, then by the
\* general scale: (raw[i] - O[i]) x S[i] x g when the channel has both an
\* offset and a scale; an absent parameter's step is skipped and a channel
\* beyond the end of the offsets has nothing subtracted
C11_OffsetScaleGenScale ==
    (outcome.op = "next" /\ outcome.res = "Some" /\ outcome.item.analog.some
     /\ SmallCounts /\ outcome.by \in DOMAIN readers)
        => LET O == AnalogParam(NameOffset, "i16")
               S == AnalogParam(NameScale, "f32")
               G == AnalogParam(NameGenScale, "f32")
               at(k) == pos - FrameBytes
                        + (4 * header.point_counts + k - 1) * WordLen
               raw(k) == AnalogAt(file, at(k), header.scale <= 0,
                                  readers[outcome.by].analog_unsigned)
               hasO(k) == O.some /\ k <= Len(O.v)
               hasS(k) == S.some /\ k <= Len(S.v)
               hasG == G.some /\ Len(G.v) >= 1
               a(k) == IF hasO(k) THEN raw(k) - O.v[k] * 100 ELSE raw(k)
               b(k) == IF hasS(k) THEN MulF(a(k), S.v[k]) ELSE a(k)
               c(k) == IF hasG THEN MulF(b(k), G.v[1]) ELSE b(k)
               v == outcome.item.analog.values
           IN  /\ Len(v) = header.analog_counts
               /\ \A k \in 1..Len(v) :
                     /\ v[k] = c(k)
                     /\ (hasO(k) /\ hasS(k) /\ hasG)
                           => v[k] = MulF(MulF(raw(k) - O.v[k] * 100, S.v[k]), G.v[1])

\* C11 witness: a frame was emitted with offsets, scales and a general scale
\* in the dictionary, one offset for two channels
C11_CalibratedFrame ==
    /\ outcome.op = "next" /\ outcome.res = "Some"
    /\ Len(outcome.item.analog.values) = 2
    /\ AnalogParam(NameOffset, "i16").some
    /\ Len(AnalogParam(NameOffset, "i16").v) = 1
    /\ AnalogParam(NameScale, "f32").some
    /\ AnalogParam(NameGenScale, "f32").some

\* byte offset of the block header.parameter_start names
ParameterOffset == (header.parameter_start - 1) * BlockSize

\* C12: the dictionary and the sub-header the adapter holds are the ones
\* decoded from byte offset (parameter_start - 1) x 512 of the source,
\* whatever header.parameter_start is
C12_SectionAtParameterStart ==
    stage = "constructed"
        => LET pr == ParameterFromReader(file, ParameterOffset, overflow_checks)
           IN  /\ pr.status = "ok"
               /\ parameter.magic_word = pr.magic_word
               /\ parameter.parameter_block_counts = pr.parameter_block_counts
               /\ \E pk \in Pickers(pr.byId) :
                     DictView(parameter.groups) = DictView(Rekeyed(pr.byId, pk))

\* the walk as the claim describes it: stop where fewer than 2 bytes remain
\* or one of the two bytes at the cursor is 0, decode the entry, stop after
\* an offset field of 0, else go on at the offset field's position + offset
RECURSIVE ClaimWalk(_, _, _, _, _)
ClaimWalk(f, base, len, groups, oc) ==
    IF len < 2 \/ ByteAt(f, base) = 0 \/ ByteAt(f, base + 1) = 0 THEN groups
    ELSE LET nl     == ToI8(ByteAt(f, base))
             n      == AbsInt(nl)
             id     == ToI8(ByteAt(f, base + 1))
             name   == BytesAt(f, base + 2, n)
             offset == I16At(f, base + 2 + n)
             t      == base + 2 + n + 2
             rem    == len - (2 + n + 2)
             next   == IF id > 0
                       THEN InsertParam(groups, id,
                                ParamTrailer(f, base, t, rem, oc, id, nl < 0,
                                             name, offset).param)
                       ELSE InsertGroup(groups, AbsInt(id), name,
                                        GroupTrailer(f, t, rem, name).desc,
                                        nl < 0, base,
                                        GroupTrailer(f, t, rem, name).desc_at)
         IN  IF offset = 0 \/ 2 + n + offset <= 0 THEN next
             ELSE ClaimWalk(f, base + 2 + n + offset, len - (2 + n + offset),
                            next, oc)

\* C13: on a section of well-formed entries the walk always stops normally,
\* wherever the offset fields lead, and construct() returns the dictionary
\* of the entries met from cursor 0 by going from each entry to its offset
\* field's position + offset
C13_WalkStopsNormally ==
    (outcome.op = "open" /\ file \in WalkFiles)
        => /\ outcome.res = "Ok"
           /\ LET byId == ClaimWalk(file, BlockSize + 4,
                                    parameter.parameter_block_counts * BlockSize - 4,
                                    NoGroups, overflow_checks)
              IN  \E pk \in Pickers(byId) :
                     DictView(parameter.groups) = DictView(Rekeyed(byId, pk))

====
